---- MODULE Spec2Model ----
(***************************************************************************)
(* Media analysis pipeline of backend/video_router.py (/analyze-video) and *)
(* backend/voice_router.py (/analyze-voice).                               *)
(*                                                                         *)
(* Both handlers are coroutines of one asyncio event loop.  The code       *)
(* between two awaits runs on the loop thread without interruption; the    *)
(* variable loop names the request whose code currently occupies the loop  *)
(* thread (None when the loop is idle).  A request slot is one in-flight   *)
(* request; Deliver hands the outcome to the caller and frees the slot.    *)
(***************************************************************************)
EXTENDS Integers, Sequences, FiniteSets, TLC

\* ------------------------------------------------------------- bounds
NumReq == 2         \* request slots: requests in flight at the same time
MaxText == 3        \* longest text the speech model returns, in characters
PathsPerSlot == 2   \* temp file names mkstemp can give to one request slot
MaxStride == 3      \* largest sample_every_n_frames the sampler is called with
MaxCap == 3         \* largest max_samples the sampler is called with
MaxLen == 7         \* most frames of a video handed to the sampler
MaxProps == 2       \* most face proposals the face detector returns for a frame
MaxClass == 7       \* largest class index the emotion model returns
MaxKpId == 4        \* largest index the keypoint classifier returns
MaxCoord == 3       \* width and height of a frame whose hand landmarks are normalized
MaxLandmarks == 2   \* most landmarks of a hand (the wrist first)
MaxFrames == 2      \* most frames sampled from a video whose frames are looked at

\* ------------------------------------------------------------- values
Reqs == 1..NumReq
None == 0                       \* Python None for ids and paths
NoneVal == "<None>"             \* Python None where the other values are strings
PathPool == 1..(NumReq * PathsPerSlot)

\* ------------------------------------------------------------- text
Chars == {"a", " "}

IsSpace(c) == c = " "

RECURSIVE LStrip(_)
LStrip(s) ==
  IF s = <<>> THEN <<>>
  ELSE IF IsSpace(Head(s)) THEN LStrip(Tail(s)) ELSE s

RECURSIVE RStrip(_)
RStrip(s) ==
  IF s = <<>> THEN <<>>
  ELSE IF IsSpace(s[Len(s)]) THEN RStrip(SubSeq(s, 1, Len(s) - 1)) ELSE s

\* str.strip()
Strip(s) == RStrip(LStrip(s))

\* length of the leading run of non-whitespace characters
RECURSIVE WordLen(_)
WordLen(s) ==
  IF s = <<>> \/ IsSpace(Head(s)) THEN 0 ELSE 1 + WordLen(Tail(s))

\* str.split(): the maximal runs of non-whitespace characters
RECURSIVE Split(_)
Split(s) ==
  LET t == LStrip(s) IN
  IF t = <<>> THEN <<>>
  ELSE <<SubSeq(t, 1, WordLen(t))>> \o Split(SubSeq(t, WordLen(t) + 1, Len(t)))

StartsWith(s, p) == Len(s) >= Len(p) /\ SubSeq(s, 1, Len(p)) = p

\* every text of at most n characters
TextsUpTo(n) == UNION {[1..k -> Chars] : k \in 0..n}

\* what model.transcribe returns: {"text": s}, or a dict whose text is None
NoText == [has |-> FALSE, text |-> <<>>]
SomeText(s) == [has |-> TRUE, text |-> s]
Results == {NoText} \cup {SomeText(s) : s \in TextsUpTo(MaxText)}

\* (result.get("text") or "")
TextOr(res) == IF res.has THEN res.text ELSE <<>>

\* ------------------------------------------------------------- content types
CtNone == [none |-> TRUE, text |-> <<>>]
Ct(s) == [none |-> FALSE, text |-> s]

PfxVideo == <<"v","i","d","e","o","/">>
PfxOctet == <<"a","p","p","l","i","c","a","t","i","o","n","/",
              "o","c","t","e","t","-","s","t","r","e","a","m">>
PfxAudio == <<"a","u","d","i","o","/">>

ContentTypes ==
  { CtNone,
    Ct(<<>>),
    Ct(PfxVideo \o <<"m","p","4">>),
    Ct(PfxOctet),
    Ct(PfxAudio \o <<"w","e","b","m">>),
    Ct(<<"i","m","a","g","e","/","p","n","g">>),
    Ct(<<"v","i","d","e","o">>) }

\* a guard that only looks for a missing content type
VideoRejectsOnlyMissing(ct) == ct.none \/ ct.text = <<>>

\* not file.content_type or not file.content_type.startswith(("video/", "application/octet-stream"))
VideoRejects(ct) ==
  ct.none \/ ct.text = <<>>
  \/ ~(StartsWith(ct.text, PfxVideo) \/ StartsWith(ct.text, PfxOctet))

\* not file.content_type or not file.content_type.startswith("audio/")
VoiceRejects(ct) ==
  ct.none \/ ct.text = <<>> \/ ~StartsWith(ct.text, PfxAudio)


\* ------------------------------------------------------------- temp files
\* tempfile.mkstemp: creates a file under a name that does not exist yet
\* (O_EXCL), out of the candidate names it tries.  The names are opaque.
\* SlotPaths(r) are candidates no other request slot is ever offered.
SlotPaths(r) == {(r - 1) * PathsPerSlot + k : k \in 1..PathsPerSlot}
FreePaths(fs, names) == names \ fs

\* a name generator that does not look at what exists
MkstempReusesNames(fs, names) == CHOOSE p \in names : \A q \in names : p <= q

Mkstemp(fs, names) ==
  CHOOSE p \in FreePaths(fs, names) : \A q \in FreePaths(fs, names) : p <= q

\* os.remove(path) inside try/except Exception: pass; gone is FALSE when the
\* removal raised and the file stayed
Remove(fs, path, gone) == IF gone THEN fs \ {path} ELSE fs

\* ------------------------------------------------------------- classifier
P1 == [label |-> "Openness", confidence |-> 80]
P2 == [label |-> "Calm", confidence |-> 20]
NoReply == [kind |-> "none"]
Timeout == [kind |-> "timeout"]
Http(st, b) == [kind |-> "http", status |-> st, json |-> b]
\* the reply of POST /analyze-text within the 60 s timeout, or the timeout
Replies ==
  { Timeout,
    Http(200, [predictions |-> <<P1, P2>>]),
    Http(200, [predictions |-> <<>>]),
    Http(200, [other |-> <<>>]),
    Http(201, [predictions |-> <<P1>>]),
    Http(503, [detail |-> <<>>]) }

\* a check that lets every reply with a status through
ReplyFailsOnlyTimeout(rep) == rep.kind = "timeout"

\* resp.status_code != 200
ReplyFails(rep) == rep.kind = "timeout" \/ rep.status # 200

\* a handler that passes on the best prediction only
GetTopPrediction(rep) ==
  IF "predictions" \in DOMAIN rep.json /\ rep.json.predictions # <<>>
  THEN <<Head(rep.json.predictions)>> ELSE <<>>

\* resp.json().get("predictions", [])
GetPredictions(rep) ==
  IF "predictions" \in DOMAIN rep.json THEN rep.json.predictions ELSE <<>>

\* ------------------------------------------------------------- frame sampling
SAMPLE_EVERY_N_FRAMES == 12
MAX_SAMPLES == 60

\* a cap test that lets one frame too many through
CapReachedLate(total, m) == total > m

\* if total >= max_samples: break
CapReached(total, m) == total >= m

\* the while loop of _sample_frames_for_analysis over a source of len frames:
\* the kept source indices
RECURSIVE SampleLoop(_, _, _, _, _)
SampleLoop(len, n, m, idx, frames) ==
  IF idx >= len THEN frames                       \* cap.read() returned not ret
  ELSE IF idx % n = 0
       THEN IF CapReached(Len(frames) + 1, m)
            THEN Append(frames, idx)              \* total >= max_samples: break
            ELSE SampleLoop(len, n, m, idx + 1, Append(frames, idx))
       ELSE SampleLoop(len, n, m, idx + 1, frames)

\* a video source: whether cv.VideoCapture opens it, and its frame count
Source(o, l) == [opened |-> o, len |-> l]
SampleFrames(src, n, m) ==
  IF ~src.opened THEN <<>> ELSE SampleLoop(src.len, n, m, 0, <<>>)

VideoSources == {Source(FALSE, 0), Source(TRUE, 0), Source(TRUE, 1)}

\* ------------------------------------------------------------- histograms
\* a dict[str, int] in insertion order: a sequence of <<label, count>>
HasKey(h, l) == \E i \in 1..Len(h) : h[i][1] = l

\* an accumulation that counts a detection twice
HistAddTwice(h, l) ==
  IF HasKey(h, l)
  THEN [i \in 1..Len(h) |-> IF h[i][1] = l THEN <<l, h[i][2] + 2>> ELSE h[i]]
  ELSE Append(h, <<l, 2>>)

\* counts[label] = counts.get(label, 0) + 1
HistAdd(h, l) ==
  IF HasKey(h, l)
  THEN [i \in 1..Len(h) |-> IF h[i][1] = l THEN <<l, h[i][2] + 1>> ELSE h[i]]
  ELSE Append(h, <<l, 1>>)

\* a descending sort that puts an item in front of the items of equal count
RECURSIVE InsertBeforeEqual(_, _)
InsertBeforeEqual(item, sorted) ==
  IF sorted = <<>> THEN <<item>>
  ELSE IF Head(sorted)[2] > item[2]
       THEN <<Head(sorted)>> \o InsertBeforeEqual(item, Tail(sorted))
       ELSE <<item>> \o sorted

\* one step of the stable descending sort: item goes behind every item whose
\* count is at least its own, so that items of equal count keep their order
RECURSIVE InsertDesc(_, _)
InsertDesc(item, sorted) ==
  IF sorted = <<>> THEN <<item>>
  ELSE IF Head(sorted)[2] >= item[2]
       THEN <<Head(sorted)>> \o InsertDesc(item, Tail(sorted))
       ELSE <<item>> \o sorted

\* sorted(counts.items(), key=lambda x: x[1], reverse=True)
RECURSIVE SortedDesc(_, _)
SortedDesc(items, sorted) ==
  IF items = <<>> THEN sorted
  ELSE SortedDesc(Tail(items), InsertDesc(Head(items), sorted))

\* sorted(...)[0][0]
Dominant(h) == SortedDesc(h, <<>>)[1][1]

\* the six labels numbered densely from 0
EmoLabelsDense(idx) ==
  CASE idx = 0 -> "Angry"
    [] idx = 1 -> "Fear"
    [] idx = 2 -> "Happy"
    [] idx = 3 -> "Neutral"
    [] idx = 4 -> "Sad"
    [] idx = 5 -> "Surprise"
    [] OTHER -> "Neutral"

\* EMO_LABELS.get(label_idx, "Neutral")
EMO_LABELS(idx) ==
  CASE idx = 0 -> "Angry"
    [] idx = 2 -> "Fear"
    [] idx = 3 -> "Happy"
    [] idx = 4 -> "Neutral"
    [] idx = 5 -> "Sad"
    [] idx = 6 -> "Surprise"
    [] OTHER -> "Neutral"

NoFace == -1
\* the per-frame loop of _detect_emotions: obs[i] is the class index the
\* emotion model returns for the best face of frame i, NoFace when the frame
\* has no surviving face proposal
RECURSIVE EmotionCounts(_, _)
EmotionCounts(obs, counts) ==
  IF obs = <<>> THEN counts
  ELSE IF Head(obs) = NoFace THEN EmotionCounts(Tail(obs), counts)
       ELSE EmotionCounts(Tail(obs), HistAdd(counts, EMO_LABELS(Head(obs))))

\* the selection step of _detect_emotions
EmotionResult(counts) ==
  IF counts = <<>> THEN <<"Neutral", <<>>>> ELSE <<Dominant(counts), counts>>

\* keypoint_classifier_label.csv as read by _lazy_gestures
KpLabelTable == <<"Open", "Close", "">>

\* a lookup that falls back to the first row when the index is out of range
KpLabelOrFirst(table, id) ==
  IF id >= 0 /\ id < Len(table) THEN table[id + 1] ELSE table[1]

\* try: label = kp_labels[int(kp_id)] except Exception: label = None
KpLabel(table, id) ==
  IF id >= 0 /\ id < Len(table) THEN table[id + 1]
  ELSE IF id < 0 /\ -id <= Len(table) THEN table[Len(table) + id + 1]
  ELSE NoneVal

\* the hands of one frame: hs is the sequence of classifier indices, one per hand
RECURSIVE HandCounts(_, _, _)
HandCounts(hs, table, counts) ==
  IF hs = <<>> THEN counts
  ELSE LET label == KpLabel(table, Head(hs)) IN
       IF label # NoneVal /\ label # ""           \* if label:
       THEN HandCounts(Tail(hs), table, HistAdd(counts, label))
       ELSE HandCounts(Tail(hs), table, counts)

\* the per-frame loop of _detect_gestures: hands[i] is the hands of frame i
RECURSIVE GestureCounts(_, _, _)
GestureCounts(hands, table, counts) ==
  IF hands = <<>> THEN counts
  ELSE GestureCounts(Tail(hands), table, HandCounts(Head(hands), table, counts))

\* a selection that sorts the histogram it was given
GestureResultSortsCounts(counts) ==
  IF counts = <<>> THEN <<NoneVal, <<>>>>
  ELSE <<Dominant(counts), SortedDesc(counts, <<>>)>>

\* the selection step of _detect_gestures: sorted() builds a new list, the
\* dict is returned as accumulated
GestureResult(counts) ==
  IF counts = <<>> THEN <<NoneVal, <<>>>> ELSE <<Dominant(counts), counts>>

\* what the models see in one frame
EmoOutcomes == {NoFace, 3, 1}
HandOutcomes == {<<>>, <<0, 1>>, <<7>>}

\* mp_hands.Hands(max_num_hands=2): res.multi_hand_landmarks has at most two
\* hands
MAX_NUM_HANDS == 2
\* indices the keypoint classifier returns: the labelled rows
KpIds == {0, 1}
HandsUpTo(n) == UNION {[1..k -> KpIds] : k \in 0..n}
\* every outcome of one frame: no face or one of two emotions; no hand, one
\* hand or two, each of one of two gestures
AllEmoOutcomes == {NoFace, 3, 5}
AllHandOutcomes == HandsUpTo(MAX_NUM_HANDS)
\* videos of 0 to MaxFrames sampled frames, and one that does not open
FrameSources ==
  {Source(FALSE, 0), Source(TRUE, 0)}
  \cup {Source(TRUE, (k - 1) * SAMPLE_EVERY_N_FRAMES + 1) : k \in 1..MaxFrames}

\* ------------------------------------------------------------- state
VARIABLES
  req,        \* per request slot: the handler's position and its locals
  files,      \* the temp files that exist
  singleton,  \* the module-level lazy singletons: instance id, None when unset
  built,      \* per singleton, how many constructions have completed
  loop        \* the request whose code occupies the event loop thread, or None

vars == <<req, files, singleton, built, loop>>

\* video_router: _whisper_model, _face_net, _emotion_model, _kp_classifier,
\* _ph_classifier, _kp_labels, _ph_labels; voice_router: _model
VideoSingletons == {"_whisper_model", "_face_net", "_emotion_model",
                    "_kp_classifier", "_ph_classifier", "_kp_labels", "_ph_labels"}
Singletons == VideoSingletons \cup {"_model"}
SpeechSingletons == {"_whisper_model", "_model"}

NoResp == [status |-> 0]
\* HTTPException(status_code=400, ...)
Err400 == [status |-> 400]
\* HTTPException(status_code=500, ...) or an exception that leaves the handler
Err500 == [status |-> 500]

Unset == <<NoneVal, <<>>>>

\* an object a constructor returned: the n-th one assigned to the global of
\* that name; NoInstance is None
Instance(s, n) == [of |-> s, n |-> n]
NoInstance == [of |-> "None", n |-> 0]

IdleReq ==
  [ pc |-> "idle", endpoint |-> "none", ctype |-> CtNone,
    created |-> <<>>,            \* the paths mkstemp returned to this request
    video_path |-> None,         \* video_path (webm_path in analyze_voice)
    wav_path |-> None,
    model |-> NoInstance,
    transcribed |-> FALSE,       \* model.transcribe has returned
    result |-> NoText,
    transcript |-> <<>>,
    posts |-> <<>>,              \* the bodies posted to /analyze-text
    reply |-> NoReply,           \* what the POST came back with
    predictions |-> <<>>,
    source |-> Source(FALSE, 0), \* the video the sampler was given
    frames |-> <<>>,
    faces |-> <<>>,              \* per frame, what _detect_emotions found in it
    hands |-> <<>>,              \* per frame, what _detect_gestures found in it
    emotion |-> Unset,           \* (dominant_emotion, emo_counts)
    gesture |-> Unset,           \* (dominant_gesture, gest_counts)
    trace |-> <<>>,              \* the stages started, in order
    removes |-> <<>>,            \* the paths os.remove was called with
    raised |-> "none",           \* the singleton whose construction raised
    resp |-> NoResp ]

Init ==
  /\ req = [r \in {1} |-> IdleReq]
  /\ files = {}
  /\ singleton = [s \in Singletons |-> NoInstance]
  /\ built = [s \in Singletons |-> 0]
  /\ loop = None

\* the loop thread is free for request r to run on
CanRun(r) == loop = None \/ loop = r

\* `await`: the coroutine is suspended and the loop thread is given up
Await(r) == None

\* model.transcribe called directly in the coroutine
TranscribeInline(r) == r

\* `await asyncio.to_thread(model.transcribe, ...)`: transcription runs in a
\* worker thread while the coroutine is suspended
AwaitToThread(r) == Await(r)

\* synchronous code of a coroutine keeps the loop thread
Blocking(r) == r

\* ------------------------------------------------------------- lazy singletons
\* a lazy getter that constructs on every call
NeedsLoadAlways(cur) == TRUE

\* `if _x is None:`
NeedsLoad(cur) == cur = NoInstance

\* the instance a completed construction of s yields: every object is a new one
NewInstance(s, blt) == Instance(s, blt[s] + 1)

\* KeyPointClassifier(model_path=...), PointHistoryClassifier(model_path=...):
\* the constructor raises when its model file is missing
GestureClassifiers == {"_kp_classifier", "_ph_classifier"}
ClassifierRaises(s, failAt) == s = failAt

\* whisper.load_model, the RuntimeError of _lazy_face_net and _lazy_emotion,
\* open() of a label file: the construction of s raises when its assets are
\* the missing ones
ConstructRaises(s, failAt) ==
  IF s \in GestureClassifiers THEN ClassifierRaises(s, failAt) ELSE s = failAt

\* the `if _x is None: _x = <construct>` blocks for names, in order; the
\* construction of failAt raises (its assets are missing)
RECURSIVE LazyChain(_, _, _, _)
LazyChain(names, failAt, sing, blt) ==
  IF names = <<>> THEN [sing |-> sing, built |-> blt, raised |-> FALSE]
  ELSE LET s == Head(names) IN
       IF NeedsLoad(sing[s])
       THEN IF ConstructRaises(s, failAt)
            THEN [sing |-> sing, built |-> blt, raised |-> TRUE]
            ELSE LazyChain(Tail(names), failAt,
                           [sing EXCEPT ![s] = NewInstance(s, blt)],
                           [blt EXCEPT ![s] = @ + 1])
       ELSE LazyChain(Tail(names), failAt, sing, blt)

LazyWhisperNames == <<"_whisper_model">>
GetModelNames == <<"_model">>
LazyVisionNames == <<"_face_net", "_emotion_model">>
LazyGestureNames == <<"_kp_classifier", "_ph_classifier", "_kp_labels", "_ph_labels">>

Range(q) == {q[i] : i \in 1..Len(q)}
\* which construction raises, among those whose assets may be missing
FailChoices(names, missing) == (Range(names) \cap missing) \cup {"none"}

\* ------------------------------------------------------------- handler steps
Set(r, rec) == req' = [req EXCEPT ![r] = rec]
Stage(rec, name) == Append(rec.trace, name)

\* a handler that catches the error of a lazy getter and goes on to its report
InitErrorIgnored(me, s) == [me EXCEPT !.pc = "compose", !.raised = s]

\* the exception of a lazy getter is caught nowhere: it leaves the handler
\* through the finally block
InitError(me, s) == [me EXCEPT !.pc = "cleanup", !.resp = Err500, !.raised = s]

\* the content-type guard, then _save_temp up to its first `await upload.read`
Start(r, ep, ct, rejects, names) ==
  /\ req[r].pc = "idle"
  /\ loop = None
  /\ LET me == [req[r] EXCEPT !.endpoint = ep, !.ctype = ct] IN
     IF rejects
     THEN /\ Set(r, [me EXCEPT !.pc = "done", !.resp = Err400])
          /\ loop' = Blocking(r)
          /\ UNCHANGED files
     ELSE IF FreePaths(files, names) = {}          \* mkstemp finds no usable name
     THEN /\ Set(r, [me EXCEPT !.pc = "done", !.resp = Err500,
                               !.trace = Stage(me, "save")])
          /\ loop' = Blocking(r)
          /\ UNCHANGED files
     ELSE LET p == Mkstemp(files, names) IN
          /\ files' = files \cup {p}
          /\ Set(r, [me EXCEPT !.pc = "saving", !.created = <<p>>,
                               !.trace = Stage(me, "save")])
          /\ loop' = Await(r)
  /\ UNCHANGED <<singleton, built>>

VideoStart(r, ct, names) == Start(r, "video", ct, VideoRejects(ct), names)
VoiceStart(r, ct, names) == Start(r, "voice", ct, VoiceRejects(ct), names)

\* _save_temp returns the path, or a read or write raises: the call stands
\* before the handler's try block
Saved(r, ok) ==
  /\ req[r].pc = "saving"
  /\ CanRun(r)
  /\ IF ok
     THEN /\ Set(r, [req[r] EXCEPT !.pc = "extract",
                                   !.video_path = req[r].created[1],
                                   !.wav_path = None])
          /\ loop' = Blocking(r)
     ELSE /\ Set(r, [req[r] EXCEPT !.pc = "done", !.resp = Err500])
          /\ loop' = Blocking(r)
  /\ UNCHANGED <<files, singleton, built>>

\* an extraction that is tried again when ffmpeg fails
ExtractRetries(r, ok, names) ==
  /\ req[r].pc = "extract"
  /\ loop = r
  /\ LET me == [req[r] EXCEPT !.trace = Stage(req[r], "extract")] IN
     IF FreePaths(files, names) = {}
     THEN /\ Set(r, [me EXCEPT !.pc = "cleanup", !.resp = Err500])
          /\ UNCHANGED files
     ELSE LET w == Mkstemp(files, names) IN
          /\ files' = files \cup {w}
          /\ IF ok
             THEN Set(r, [me EXCEPT !.pc = "model", !.created = Append(@, w),
                                    !.wav_path = w])
             ELSE Set(r, [me EXCEPT !.created = Append(@, w)])
  /\ UNCHANGED <<singleton, built, loop>>

\* wav_path = _extract_audio_to_wav(video_path): mkstemp, then ffmpeg, which
\* raises on an undecodable upload
Extract(r, ok, names) ==
  /\ req[r].pc = "extract"
  /\ loop = r
  /\ LET me == [req[r] EXCEPT !.trace = Stage(req[r], "extract")] IN
     IF FreePaths(files, names) = {}
     THEN /\ Set(r, [me EXCEPT !.pc = "cleanup", !.resp = Err500])
          /\ UNCHANGED files
     ELSE LET w == Mkstemp(files, names) IN
          /\ files' = files \cup {w}
          /\ IF ok
             THEN Set(r, [me EXCEPT !.pc = "model", !.created = Append(@, w),
                                    !.wav_path = w])
             ELSE Set(r, [me EXCEPT !.pc = "cleanup", !.created = Append(@, w),
                                    !.resp = Err500])
  /\ UNCHANGED <<singleton, built, loop>>

\* model = _lazy_whisper() / get_model(), then the transcription is handed
\* to a worker thread
LoadSpeech(r, ep, names, failAt) ==
  /\ req[r].pc = "model"
  /\ req[r].endpoint = ep
  /\ loop = r
  /\ LET got == LazyChain(names, failAt, singleton, built) IN
     /\ singleton' = got.sing
     /\ built' = got.built
     /\ IF got.raised
        THEN /\ Set(r, InitError(req[r], failAt))
             /\ loop' = loop
        ELSE /\ Set(r, [req[r] EXCEPT !.pc = "transcribing",
                                      !.model = got.sing[names[1]],
                                      !.trace = Stage(req[r], "transcribe")])
             /\ loop' = AwaitToThread(r)
  /\ UNCHANGED files

VideoLazyWhisper(r, failAt) == LoadSpeech(r, "video", LazyWhisperNames, failAt)
VoiceGetModel(r, failAt) == LoadSpeech(r, "voice", GetModelNames, failAt)

\* the threshold off by one, either way
VideoTooShortBelowOne(t) == Len(Split(t)) < 1
VideoTooShortUpToTwo(t) == Len(Split(t)) <= 2

\* analyze_voice with the guard of analyze_video
VoiceTooShortBelowTwoWords(t) == Len(Split(t)) < 2

\* len(transcript.split()) < 2
VideoTooShort(t) == Len(Split(t)) < 2
\* not transcript
VoiceTooShort(t) == t = <<>>

DefaultVision ==
  [dominant_emotion |-> "Neutral", dominant_gesture |-> NoneVal,
   emotions |-> <<>>, gestures |-> <<>>]

\* the early return without its advisory message
VideoShortReportNoMessage(t) ==
  [status |-> 200, transcript |-> t, predictions |-> <<>>, vision |-> DefaultVision]

\* the JSONResponse of the short-utterance early return of analyze_video
VideoShortReport(t) ==
  [status |-> 200, transcript |-> t, predictions |-> <<>>,
   vision |-> DefaultVision,
   message |-> "Please speak more so I can understand you better."]

\* the JSONResponse of the early return of analyze_voice
VoiceShortReport(t) ==
  [status |-> 200, transcript |-> <<>>, predictions |-> <<>>,
   message |-> "No speech detected."]

\* the dict analyze_video returns at the end
VideoReport(me) ==
  [status |-> 200, transcript |-> me.transcript, predictions |-> me.predictions,
   vision |-> [dominant_emotion |-> me.emotion[1],
               dominant_gesture |-> me.gesture[1],
               emotions |-> me.emotion[2],
               gestures |-> me.gesture[2]]]

\* the dict analyze_voice returns at the end
VoiceReport(me) ==
  [status |-> 200, transcript |-> me.transcript, predictions |-> me.predictions]

\* the body of the POST to /analyze-text
PostBody(t) == [text |-> t]

\* the worker thread returns result (or transcribe raised): strip, the short
\* transcript early return, else the POST to the text classifier
Transcribed(r, ep, ok, res, short, report) ==
  /\ req[r].pc = "transcribing"
  /\ req[r].endpoint = ep
  /\ CanRun(r)
  /\ IF ~ok
     THEN /\ Set(r, [req[r] EXCEPT !.pc = "cleanup", !.resp = Err500])
          /\ loop' = Blocking(r)
     ELSE LET t == Strip(TextOr(res))
              me == [req[r] EXCEPT !.transcribed = TRUE, !.result = res,
                                  !.transcript = t] IN
          IF short
          THEN /\ Set(r, [me EXCEPT !.pc = "cleanup", !.resp = report])
               /\ loop' = Blocking(r)
          ELSE /\ Set(r, [me EXCEPT !.pc = "classifying",
                                    !.posts = Append(@, PostBody(t)),
                                    !.trace = Stage(me, "classify")])
               /\ loop' = Await(r)
  /\ UNCHANGED <<files, singleton, built>>

VideoTranscribed(r, ok, res) ==
  Transcribed(r, "video", ok, res, VideoTooShort(Strip(TextOr(res))),
              VideoShortReport(Strip(TextOr(res))))
VoiceTranscribed(r, ok, res) ==
  Transcribed(r, "voice", ok, res, VoiceTooShort(Strip(TextOr(res))),
              VoiceShortReport(Strip(TextOr(res))))

\* the classifier's reply arrives, or the 60 s timeout raises
VideoClassified(r, rep) ==
  /\ req[r].pc = "classifying"
  /\ req[r].endpoint = "video"
  /\ CanRun(r)
  /\ LET me == [req[r] EXCEPT !.reply = rep] IN
     IF ReplyFails(rep)
     THEN Set(r, [me EXCEPT !.pc = "cleanup", !.resp = Err500])
     ELSE Set(r, [me EXCEPT !.pc = "sampling",
                            !.predictions = GetPredictions(rep)])
  /\ loop' = Blocking(r)
  /\ UNCHANGED <<files, singleton, built>>

VoiceClassified(r, rep) ==
  /\ req[r].pc = "classifying"
  /\ req[r].endpoint = "voice"
  /\ CanRun(r)
  /\ IF ReplyFails(rep)
     THEN Set(r, [req[r] EXCEPT !.pc = "cleanup", !.reply = rep, !.resp = Err500])
     ELSE LET me == [req[r] EXCEPT !.reply = rep,
                                   !.predictions = GetPredictions(rep)] IN
          Set(r, [me EXCEPT !.pc = "cleanup", !.resp = VoiceReport(me),
                            !.trace = Stage(me, "compose")])
  /\ loop' = Blocking(r)
  /\ UNCHANGED <<files, singleton, built>>

\* a sampler that treats a source it cannot open as an error
SamplerRaisesWhenUnopened(src, ok) == ~src.opened \/ ~ok

\* the sampler raises only out of cap.read(), on an opened source; `if not
\* cap.isOpened(): return []` is no error
SamplerRaises(src, ok) == src.opened /\ ~ok

\* frames = _sample_frames_for_analysis(video_path)
VideoSample(r, src, ok) ==
  /\ req[r].pc = "sampling"
  /\ loop = r
  /\ LET me == [req[r] EXCEPT !.source = src, !.trace = Stage(req[r], "sample")] IN
     IF SamplerRaises(src, ok)
     THEN Set(r, [me EXCEPT !.pc = "cleanup", !.resp = Err500])
     ELSE Set(r, [me EXCEPT !.pc = "emotions",
                            !.frames = SampleFrames(src, SAMPLE_EVERY_N_FRAMES,
                                                    MAX_SAMPLES)])
  /\ UNCHANGED <<files, singleton, built, loop>>

\* a detector without the early return on an empty frame list
NoFramesNever(frames) == FALSE

\* `if not frames:` at the head of both detectors
NoFrames(frames) == frames = <<>>

\* dominant_emotion, emo_counts = _detect_emotions(frames)
VideoEmotions(r, failAt, obs) ==
  /\ req[r].pc = "emotions"
  /\ loop = r
  /\ LET me == [req[r] EXCEPT !.trace = Stage(req[r], "emotion")] IN
     IF NoFrames(me.frames)
     THEN /\ Set(r, [me EXCEPT !.pc = "gestures", !.emotion = <<"Neutral", <<>>>>])
          /\ UNCHANGED <<singleton, built>>
     ELSE LET got == LazyChain(LazyVisionNames, failAt, singleton, built) IN
          /\ singleton' = got.sing
          /\ built' = got.built
          /\ IF got.raised
             THEN Set(r, InitError(me, failAt))
             ELSE Set(r, [me EXCEPT !.pc = "gestures", !.faces = obs,
                                    !.emotion = EmotionResult(EmotionCounts(obs, <<>>))])
  /\ UNCHANGED <<files, loop>>

\* dominant_gesture, gest_counts = _detect_gestures(frames)
VideoGestures(r, failAt, hands) ==
  /\ req[r].pc = "gestures"
  /\ loop = r
  /\ LET me == [req[r] EXCEPT !.trace = Stage(req[r], "gesture")] IN
     IF NoFrames(me.frames)
     THEN /\ Set(r, [me EXCEPT !.pc = "compose", !.gesture = <<NoneVal, <<>>>>])
          /\ UNCHANGED <<singleton, built>>
     ELSE LET got == LazyChain(LazyGestureNames, failAt, singleton, built) IN
          /\ singleton' = got.sing
          /\ built' = got.built
          /\ IF got.raised
             THEN Set(r, InitError(me, failAt))
             ELSE Set(r, [me EXCEPT !.pc = "compose", !.hands = hands,
                                    !.gesture = GestureResult(
                                       GestureCounts(hands, KpLabelTable, <<>>))])
  /\ UNCHANGED <<files, loop>>

\* return {...}
VideoCompose(r) ==
  /\ req[r].pc = "compose"
  /\ loop = r
  /\ Set(r, [req[r] EXCEPT !.pc = "cleanup", !.resp = VideoReport(req[r]),
                           !.trace = Stage(req[r], "compose")])
  /\ UNCHANGED <<files, singleton, built, loop>>

\* a removal error that leaves the finally block and replaces the outcome
RemovalErrorEscapes(outcome, gone) == IF gone THEN outcome ELSE Err500

\* try: os.remove(...) except Exception: pass -- the outcome the handler was
\* leaving with stays what it was
Swallowed(outcome, gone) == outcome

\* the finally block: os.remove(video_path), then os.remove(wav_path) when
\* wav_path was assigned; g1 and g2 tell whether each removal went through
Cleanup(r, g1, g2) ==
  /\ req[r].pc = "cleanup"
  /\ loop = r
  /\ LET me == [req[r] EXCEPT !.pc = "done", !.trace = Stage(req[r], "cleanup")]
         f1 == Remove(files, me.video_path, g1)
         o1 == Swallowed(me.resp, g1)
     IN IF me.wav_path # None
        THEN /\ files' = Remove(f1, me.wav_path, g2)
             /\ Set(r, [me EXCEPT !.removes = <<me.video_path, me.wav_path>>,
                                   !.resp = Swallowed(o1, g2)])
        ELSE /\ files' = f1
             /\ Set(r, [me EXCEPT !.removes = <<me.video_path>>, !.resp = o1])
  /\ UNCHANGED <<singleton, built, loop>>

\* the handler has returned or raised: the framework, still on the loop
\* thread, hands the outcome to the caller and the handler's frame is gone
Deliver(r) ==
  /\ req[r].pc = "done"
  /\ loop = r
  /\ Set(r, IdleReq)
  /\ loop' = None
  /\ UNCHANGED <<files, singleton, built>>

Observations(me, outcomes) == [1..Len(me.frames) -> outcomes]

Slots == DOMAIN req

\* one step of the server, its inputs drawn from the sets of inp
Step(inp) ==
  \/ \E r \in Slots, ct \in inp.ctypes : VideoStart(r, ct, inp.names[r])
  \/ \E r \in Slots, ct \in inp.ctypes : VoiceStart(r, ct, inp.names[r])
  \/ \E r \in Slots, ok \in inp.io : Saved(r, ok)
  \/ \E r \in Slots, ok \in inp.io : Extract(r, ok, inp.names[r])
  \/ \E r \in Slots, f \in FailChoices(LazyWhisperNames, inp.missing) :
       VideoLazyWhisper(r, f)
  \/ \E r \in Slots, f \in FailChoices(GetModelNames, inp.missing) :
       VoiceGetModel(r, f)
  \/ \E r \in Slots, ok \in inp.io, res \in inp.results : VideoTranscribed(r, ok, res)
  \/ \E r \in Slots, ok \in inp.io, res \in inp.results : VoiceTranscribed(r, ok, res)
  \/ \E r \in Slots, rep \in inp.replies : VideoClassified(r, rep)
  \/ \E r \in Slots, rep \in inp.replies : VoiceClassified(r, rep)
  \/ \E r \in Slots, src \in inp.sources, ok \in inp.io : VideoSample(r, src, ok)
  \/ \E r \in Slots, f \in FailChoices(LazyVisionNames, inp.missing) :
       \E obs \in Observations(req[r], inp.faces) : VideoEmotions(r, f, obs)
  \/ \E r \in Slots, f \in FailChoices(LazyGestureNames, inp.missing) :
       \E hands \in Observations(req[r], inp.hands) : VideoGestures(r, f, hands)
  \/ \E r \in Slots : VideoCompose(r)
  \/ \E r \in Slots, g1 \in inp.io, g2 \in inp.io : Cleanup(r, g1, g2)
  \/ \E r \in Slots : Deliver(r)

\* requests served one at a time, over every input
AllInputs ==
  [ctypes |-> ContentTypes, results |-> Results, replies |-> Replies,
   sources |-> VideoSources, faces |-> EmoOutcomes, hands |-> HandOutcomes,
   io |-> BOOLEAN, missing |-> Singletons,
   names |-> [r \in Reqs |-> SlotPaths(r)]]

Next == Step(AllInputs)

Spec == Init /\ [][Next]_vars

\* every external call returns or raises, and the event loop resumes a
\* coroutine whose awaited call has finished: a handler step that can be
\* taken is taken
SpecLive == Init /\ [][Next]_vars /\ WF_vars(Next)

\* NumReq requests in flight at once, over inputs that take every branch of
\* the handlers once and whose file operations go through
FewInputs ==
  [ctypes |-> {Ct(PfxVideo \o <<"m","p","4">>), Ct(PfxAudio \o <<"w","e","b","m">>)},
   results |-> {SomeText(<<"a">>), SomeText(<<"a", " ", "a">>)},
   replies |-> {Http(200, [predictions |-> <<P1, P2>>]), Http(503, [detail |-> <<>>])},
   sources |-> {Source(TRUE, 0), Source(TRUE, 1)},
   faces |-> {3}, hands |-> {<<0>>},
   io |-> {TRUE}, missing |-> Singletons,
   names |-> [r \in Reqs |-> SlotPaths(r)]]

InitConc ==
  /\ req = [r \in Reqs |-> IdleReq]
  /\ files = {}
  /\ singleton = [s \in Singletons |-> NoInstance]
  /\ built = [s \in Singletons |-> 0]
  /\ loop = None

NextConc == Step(FewInputs)

SpecConc == InitConc /\ [][NextConc]_vars

\* requests served one at a time, over every outcome of the vision models on
\* the sampled frames and one input per other branch
VisionInputs ==
  [ctypes |-> {Ct(PfxVideo \o <<"m","p","4">>), Ct(PfxAudio \o <<"w","e","b","m">>)},
   results |-> {SomeText(<<"a", " ", "a">>)},
   replies |-> {Http(200, [predictions |-> <<P1, P2>>])},
   sources |-> FrameSources,
   faces |-> AllEmoOutcomes, hands |-> AllHandOutcomes,
   io |-> {TRUE}, missing |-> {},
   names |-> [r \in Reqs |-> SlotPaths(r)]]

NextVision == Step(VisionInputs)

SpecVision == Init /\ [][NextVision]_vars

\* NumReq requests in flight at once whose mkstemp calls all draw on the same
\* candidate names, over one input per branch
SharedNames ==
  [ctypes |-> {Ct(PfxVideo \o <<"m","p","4">>), Ct(PfxAudio \o <<"w","e","b","m">>)},
   results |-> {SomeText(<<"a", " ", "a">>)},
   replies |-> {Http(200, [predictions |-> <<P1, P2>>])},
   sources |-> {Source(TRUE, 0)},
   faces |-> {3}, hands |-> {<<0>>},
   io |-> {TRUE}, missing |-> {},
   names |-> [r \in Reqs |-> PathPool]]

NextShared == Step(SharedNames)

SpecShared == InitConc /\ [][NextShared]_vars

\* ------------------------------------------------------------- the sampler, step by step
\* one call _sample_frames_for_analysis(video_path, n, m) on the source src;
\* cap is the decoder handle of cv.VideoCapture: "none" before the call,
\* "unopened" when the source did not open (no handle is held), "open",
\* "released" after cap.release()
SamplerCall(n, m, src) ==
  [pc |-> "open", n |-> n, m |-> m, src |-> src, cap |-> "none",
   idx |-> 0, total |-> 0, frames |-> <<>>,
   decoded |-> 0]               \* frames cap.read() has decoded

SamplerSources == {Source(FALSE, 0)} \cup {Source(TRUE, l) : l \in 0..MaxLen}

InitSample ==
  /\ req \in {[r \in {1} |-> SamplerCall(n, m, src)] :
               n \in 1..MaxStride, m \in 0..MaxCap, src \in SamplerSources}
  /\ files = {}
  /\ singleton = [s \in Singletons |-> NoInstance]
  /\ built = [s \in Singletons |-> 0]
  /\ loop = 1

\* cap = cv.VideoCapture(video_path); if not cap.isOpened(): return []
SamplerOpen(r) ==
  /\ req[r].pc = "open"
  /\ IF req[r].src.opened
     THEN Set(r, [req[r] EXCEPT !.pc = "read", !.cap = "open"])
     ELSE Set(r, [req[r] EXCEPT !.pc = "returned", !.cap = "unopened"])
  /\ UNCHANGED <<files, singleton, built, loop>>

\* one pass of the while loop: cap.read(), which raises when ok is FALSE
SamplerRead(r, ok) ==
  /\ req[r].pc = "read"
  /\ LET me == req[r] IN
     IF ~ok THEN Set(r, [me EXCEPT !.pc = "raised"])
     ELSE IF me.idx >= me.src.len                      \* if not ret: break
     THEN Set(r, [me EXCEPT !.pc = "release"])
     ELSE LET got == [me EXCEPT !.decoded = @ + 1] IN
          IF got.idx % got.n = 0
          THEN LET kept == [got EXCEPT !.frames = Append(@, got.idx),
                                       !.total = @ + 1] IN
               IF CapReached(kept.total, kept.m)
               THEN Set(r, [kept EXCEPT !.pc = "release"])
               ELSE Set(r, [kept EXCEPT !.idx = @ + 1])
          ELSE Set(r, [got EXCEPT !.idx = @ + 1])
  /\ UNCHANGED <<files, singleton, built, loop>>

\* cap.release(); return frames
SamplerRelease(r) ==
  /\ req[r].pc = "release"
  /\ Set(r, [req[r] EXCEPT !.pc = "returned", !.cap = "released"])
  /\ UNCHANGED <<files, singleton, built, loop>>

NextSample ==
  \/ \E r \in Slots : SamplerOpen(r)
  \/ \E r \in Slots, ok \in BOOLEAN : SamplerRead(r, ok)
  \/ \E r \in Slots : SamplerRelease(r)

SpecSample == InitSample /\ [][NextSample]_vars

\* ------------------------------------------------------------- faces of one frame
\* confidences in hundredths: `if conf < 0.85: continue`
FACE_CONF_MIN == 85
\* if (x2 - x1) < 50 or (y2 - y1) < 50: continue
FACE_SIDE_MIN == 50
\* h, w = frame.shape[:2]
FrameW == 100
FrameH == 100

MaxOf(a, b) == IF a >= b THEN a ELSE b
MinOf(a, b) == IF a <= b THEN a ELSE b

\* x1, y1 = max(0, x1), max(0, y1); x2, y2 = min(w - 1, x2), min(h - 1, y2)
Clamp(box, w, h) ==
  <<MaxOf(0, box[1]), MaxOf(0, box[2]), MinOf(w - 1, box[3]), MinOf(h - 1, box[4])>>

\* a selection that lets a later proposal of equal confidence win
BetterOrEqual(conf, best_conf) == conf >= best_conf

\* if conf > best_conf
Better(conf, best_conf) == conf > best_conf

NoBox == <<>>
\* the loop over detections.shape[2]: best and best_conf after proposal i
RECURSIVE BestFace(_, _, _, _, _, _)
BestFace(dets, i, w, h, best, best_conf) ==
  IF i > Len(dets) THEN best
  ELSE LET conf == dets[i].conf
           b == Clamp(dets[i].box, w, h) IN
       IF conf < FACE_CONF_MIN THEN BestFace(dets, i + 1, w, h, best, best_conf)
       ELSE IF (b[3] - b[1]) < FACE_SIDE_MIN \/ (b[4] - b[2]) < FACE_SIDE_MIN
       THEN BestFace(dets, i + 1, w, h, best, best_conf)
       ELSE IF Better(conf, best_conf)
       THEN BestFace(dets, i + 1, w, h, b, conf)
       ELSE BestFace(dets, i + 1, w, h, best, best_conf)

\* face = gray[y1:y2, x1:x2]; face.size
CropSize(b) == MaxOf(0, b[3] - b[1]) * MaxOf(0, b[4] - b[2])

\* the boxes emo_model.predict is called on for one frame: none when best is
\* None or the crop is empty
Classified(dets, w, h) ==
  LET best == BestFace(dets, 1, w, h, NoBox, 0) IN
  IF best = NoBox THEN <<>>
  ELSE IF CropSize(best) = 0 THEN <<>>
  ELSE <<best>>

\* what the frame adds to the histogram: cls is the class index the emotion
\* model returns for the crop
FaceOutcome(dets, cls, w, h) == IF Classified(dets, w, h) = <<>> THEN NoFace ELSE cls

\* face proposals: a box well inside the frame, one exactly 50 px wide, one
\* 49 px wide, one reaching past the right edge (39 px after clamping)
Boxes == {<<10, 10, 90, 90>>, <<20, 20, 70, 95>>, <<10, 10, 59, 90>>, <<60, 10, 140, 90>>}
Confidences == {80, 85, 90}
Proposals == [conf : Confidences, box : Boxes]
ClassIndices == 0..MaxClass

\* _detect_emotions([frame]) about to run on one frame
FaceCall(dets, cls) ==
  [pc |-> "frame", dets |-> dets, cls |-> cls, classified |-> <<>>, emotion |-> Unset]

InitFaces ==
  /\ req \in {[r \in {1} |-> FaceCall(dets, cls)] :
               dets \in UNION {[1..k -> Proposals] : k \in 0..MaxProps},
               cls \in ClassIndices}
  /\ files = {}
  /\ singleton = [s \in Singletons |-> NoInstance]
  /\ built = [s \in Singletons |-> 0]
  /\ loop = 1

\* the body of the frame loop of _detect_emotions and the selection after it
DetectFace(r) ==
  /\ req[r].pc = "frame"
  /\ LET me == req[r]
         obs == <<FaceOutcome(me.dets, me.cls, FrameW, FrameH)>> IN
     Set(r, [me EXCEPT !.pc = "returned",
                       !.classified = Classified(me.dets, FrameW, FrameH),
                       !.emotion = EmotionResult(EmotionCounts(obs, <<>>))])
  /\ UNCHANGED <<files, singleton, built, loop>>

NextFaces == \E r \in Slots : DetectFace(r)

SpecFaces == InitFaces /\ [][NextFaces]_vars

\* ------------------------------------------------------------- hands of the sampled frames
\* the index kp(norm) returns: the position of the largest of the classifier's
\* output scores, of which there can be more than the label file has rows
KpClassIndices == 0..MaxKpId
\* res.multi_hand_landmarks of one frame, as the index of each hand
FrameHands == UNION {[1..k -> KpClassIndices] : k \in 0..MAX_NUM_HANDS}

\* _detect_gestures(frames) about to run; hands[f] is what frame f shows
HandsCall(hands) == [pc |-> "hands", hands |-> hands, gesture |-> Unset]

InitHands ==
  /\ req \in {[r \in {1} |-> HandsCall(hands)] :
               hands \in UNION {[1..k -> FrameHands] : k \in 1..MaxFrames}}
  /\ files = {}
  /\ singleton = [s \in Singletons |-> NoInstance]
  /\ built = [s \in Singletons |-> 0]
  /\ loop = 1

\* the frame loop of _detect_gestures and the selection after it
DetectHands(r) ==
  /\ req[r].pc = "hands"
  /\ Set(r, [req[r] EXCEPT !.pc = "returned",
                           !.gesture = GestureResult(
                              GestureCounts(req[r].hands, KpLabelTable, <<>>))])
  /\ UNCHANGED <<files, singleton, built, loop>>

NextHands == \E r \in Slots : DetectHands(r)

SpecHands == InitHands /\ [][NextHands]_vars

\* ------------------------------------------------------------- the feature vector of a hand
\* image_h, image_w = frame.shape[0], frame.shape[1]
ImageW == MaxCoord
ImageH == MaxCoord
\* int(p.x * image_w) of a landmark with 0 <= p.x <= 1, image_w included
ScaledCoords == 0..MaxCoord
Landmarks == [x : ScaledCoords, y : ScaledCoords]

\* x = min(int(p.x * image_w), image_w - 1); y likewise
Points(lm, w, h) ==
  [i \in 1..Len(lm) |-> <<MinOf(lm[i].x, w - 1), MinOf(lm[i].y, h - 1)>>]

\* base_x, base_y = points[0]; norm.extend([x - base_x, y - base_y])
RECURSIVE Relative(_, _)
Relative(points, base) ==
  IF points = <<>> THEN <<>>
  ELSE <<Head(points)[1] - base[1], Head(points)[2] - base[2]>>
         \o Relative(Tail(points), base)

Abs(n) == IF n < 0 THEN -n ELSE n
\* max(map(abs, norm))
RECURSIVE MaxAbs(_)
MaxAbs(norm) ==
  IF norm = <<>> THEN 0 ELSE MaxOf(Abs(Head(norm)), MaxAbs(Tail(norm)))

\* the largest absolute component, without the floor of 1
MaxValNoFloor(norm) == MaxAbs(norm)

\* max_val = max(1, max(map(abs, norm)))
MaxVal(norm) == MaxOf(1, MaxAbs(norm))

\* n / max_val: true division, kept as the fraction num / den
Quotient(n, d) == [num |-> n, den |-> d]

\* the feature-vector part of _detect_gestures about to run on one hand
HandCall(lm) == [pc |-> "hand", landmarks |-> lm, norm |-> <<>>]

InitNorm ==
  /\ req \in {[r \in {1} |-> HandCall(lm)] :
               lm \in UNION {[1..k -> Landmarks] : k \in 1..MaxLandmarks}}
  /\ files = {}
  /\ singleton = [s \in Singletons |-> NoInstance]
  /\ built = [s \in Singletons |-> 0]
  /\ loop = 1

\* points, norm and max_val of one hand; a division by zero raises
NormalizeHand(r) ==
  /\ req[r].pc = "hand"
  /\ LET rel == Relative(Points(req[r].landmarks, ImageW, ImageH),
                         Points(req[r].landmarks, ImageW, ImageH)[1])
         max_val == MaxVal(rel) IN
     IF max_val = 0
     THEN Set(r, [req[r] EXCEPT !.pc = "raised"])
     ELSE Set(r, [req[r] EXCEPT !.pc = "returned",
                                !.norm = [i \in 1..Len(rel) |-> Quotient(rel[i], max_val)]])
  /\ UNCHANGED <<files, singleton, built, loop>>

NextNorm == \E r \in Slots : NormalizeHand(r)

SpecNorm == InitNorm /\ [][NextNorm]_vars

\* ------------------------------------------------------------- claims
IsDone(r) == req[r].pc = "done"
Stages(r) == Range(req[r].trace)
VisionStages == {"sample", "emotion", "gesture"}

\* C1: every temp file a request created with mkstemp no longer exists when
\* its handler completes, on every exit path.
C1_TempFilesGoneAtExit ==
  \A r \in Slots :
    IsDone(r) => \A i \in 1..Len(req[r].created) : req[r].created[i] \notin files

\* C2: in analyze_video a stripped transcript of fewer than 2 words means no
\* call of the text classifier and no frame sampling, emotion detection or
\* gesture detection (the only places the vision models are initialized).
C2_ShortTranscriptSkipsClassifierAndVision ==
  \A r \in Slots :
    (req[r].endpoint = "video" /\ req[r].transcribed
       /\ Len(Split(req[r].transcript)) < 2)
    => /\ req[r].posts = <<>>
       /\ req[r].reply = NoReply
       /\ Stages(r) \cap (VisionStages \cup {"classify"}) = {}
       /\ req[r].frames = <<>> /\ req[r].emotion = Unset /\ req[r].gesture = Unset

C2_Witness ==
  \E r \in Slots :
    /\ IsDone(r) /\ req[r].endpoint = "video" /\ req[r].transcribed
    /\ req[r].result = SomeText(<<" ", "a", " ">>)
    /\ req[r].transcript = <<"a">>
    /\ req[r].resp.status = 200

NoEdgeSpace(t) == t = <<>> \/ (~IsSpace(t[1]) /\ ~IsSpace(t[Len(t)]))
HasReport(r) == req[r].pc \in {"cleanup", "done"} /\ req[r].resp.status = 200

\* C3: in analyze_video a stripped transcript of fewer than 2 words yields a
\* status-200 report with that stripped transcript, predictions [], vision
\* exactly (Neutral, null, {}, {}) and an advisory message; every other
\* successful response of analyze_video has no message field.
C3_ShortReportShape ==
  \A r \in Slots :
    /\ (req[r].endpoint = "video" /\ req[r].transcribed
          /\ Len(Split(req[r].transcript)) < 2)
       => /\ HasReport(r)
          /\ DOMAIN req[r].resp = {"status", "transcript", "predictions", "vision", "message"}
          /\ req[r].resp.transcript = Strip(TextOr(req[r].result))
          /\ NoEdgeSpace(req[r].resp.transcript)
          /\ req[r].resp.predictions = <<>>
          /\ req[r].resp.vision =
               [dominant_emotion |-> "Neutral", dominant_gesture |-> NoneVal,
                emotions |-> <<>>, gestures |-> <<>>]
    /\ (req[r].endpoint = "video" /\ HasReport(r)
          /\ Len(Split(req[r].transcript)) >= 2)
       => "message" \notin DOMAIN req[r].resp

C3_Witness ==
  \E r \in Slots :
    /\ IsDone(r) /\ req[r].endpoint = "video" /\ req[r].transcribed
    /\ req[r].result = SomeText(<<"a", "a", " ">>)
    /\ req[r].resp.status = 200
    /\ req[r].resp.transcript = <<"a", "a">>
    /\ "message" \in DOMAIN req[r].resp

\* C4: in analyze_video a stripped transcript of 2 or more words is not
\* short-circuited: the text classifier is called exactly once, with the
\* body {text: transcript} carrying exactly that transcript.
C4_LongTranscriptPostedOnce ==
  \A r \in Slots :
    (req[r].endpoint = "video" /\ req[r].transcribed
       /\ Len(Split(req[r].transcript)) >= 2)
    => /\ req[r].posts = <<[text |-> Strip(TextOr(req[r].result))]>>
       /\ "classify" \in Stages(r)
       /\ (req[r].resp.status = 200 => "message" \notin DOMAIN req[r].resp)

C4_Witness ==
  \E r \in Slots :
    /\ IsDone(r) /\ req[r].endpoint = "video"
    /\ req[r].transcript = <<"a", " ", "a">>
    /\ Len(req[r].posts) = 1
    /\ req[r].resp.status = 200
    /\ "gesture" \in Stages(r)

\* the claim's accepted content types, spelled out
HasPrefixIn(ct, prefixes) ==
  ~ct.none /\ \E k \in 0..Len(ct.text) : SubSeq(ct.text, 1, k) \in prefixes
BadType(r) ==
  \/ req[r].endpoint = "video" /\ ~HasPrefixIn(req[r].ctype, {PfxVideo, PfxOctet})
  \/ req[r].endpoint = "voice" /\ ~HasPrefixIn(req[r].ctype, {PfxAudio})

\* C5: an upload whose content type is missing or has no accepted prefix
\* (video/ or application/octet-stream; audio/ for analyze_voice) is answered
\* 400, with no temp file created and no processing stage run.
C5_BadContentTypeRejected ==
  \A r \in Slots :
    BadType(r)
    => /\ IsDone(r)
       /\ req[r].resp = [status |-> 400]
       /\ req[r].created = <<>>
       /\ req[r].trace = <<>>
       /\ req[r].posts = <<>> /\ ~req[r].transcribed /\ req[r].model = NoInstance

C5_Witness ==
  \E r \in Slots :
    /\ IsDone(r) /\ req[r].endpoint = "video"
    /\ req[r].ctype = Ct(<<"i","m","a","g","e","/","p","n","g">>)
    /\ req[r].resp.status = 400

\* C6: when the text-classifier call times out or returns a non-2xx status,
\* the request ends with a 500 error and no report: no transcript,
\* prediction or vision result reaches the caller.
C6_ClassifierFailureIs500 ==
  \A r \in Slots :
    (\/ req[r].reply.kind = "timeout"
     \/ req[r].reply.kind = "http"
          /\ (req[r].reply.status < 200 \/ req[r].reply.status > 299))
    => /\ req[r].pc \in {"cleanup", "done"}
       /\ req[r].resp.status = 500
       /\ DOMAIN req[r].resp = {"status"}
       /\ Stages(r) \cap VisionStages = {}

C6_Witness ==
  \E r \in Slots :
    /\ IsDone(r) /\ req[r].reply.kind = "http" /\ req[r].reply.status = 503
    /\ req[r].transcribed /\ Len(req[r].posts) = 1
    /\ req[r].resp.status = 500

\* C7: each lazy singleton of video_router is constructed at most once per
\* process under any interleaving of concurrent requests, and every request
\* that uses it observes that one instance.
C7_VideoSingletonsBuiltOnce ==
  /\ \A s \in VideoSingletons :
       /\ built[s] <= 1
       /\ singleton[s] \in {NoInstance, Instance(s, 1)}
  /\ \A r \in Slots :
       (req[r].endpoint = "video" /\ req[r].model # NoInstance)
       => req[r].model = Instance("_whisper_model", 1)

C7_Witness ==
  \E r, q \in Slots :
    /\ r # q
    /\ req[r].endpoint = "video" /\ req[r].pc = "transcribing"
    /\ req[q].endpoint = "video" /\ req[q].pc = "gestures"
    /\ req[r].model = req[q].model /\ req[r].model # NoInstance
    /\ built["_whisper_model"] = 1 /\ built["_face_net"] = 1

\* request q has a handler step it can take now
CanAdvance(q) == ENABLED (NextConc /\ req'[q] # req[q])
\* q is suspended at an await, or is a request about to start
Suspended(q) == req[q].pc \in {"saving", "transcribing", "classifying"}
\* no request other than r occupies the loop thread
OnlyMaybe(r) == \A s \in Slots \ {r} : loop # s

SpeechGlobal(r) == IF req[r].endpoint = "video" THEN "_whisper_model" ELSE "_model"
\* r is constructing a speech model for the first time, decoding frames or
\* running per-frame inference
InHeavyStage(r) ==
  \/ req[r].pc = "model" /\ NeedsLoad(singleton[SpeechGlobal(r)])
  \/ req[r].pc \in {"sampling", "emotions", "gestures"}

\* C8: first-time singleton construction, frame decoding and per-frame
\* inference do not run on the event loop: while a request is in one of these
\* stages another in-flight request can still take its own handler steps.
C8_HeavyStagesOffLoop ==
  \A r, q \in Slots :
    (r # q /\ InHeavyStage(r) /\ Suspended(q) /\ OnlyMaybe(r)) => CanAdvance(q)

\* C9: while a request is inside the transcribe call the event loop is not
\* blocked: other requests can start and advance before it returns.
C9_TranscribeOffLoop ==
  \A r, q \in Slots :
    (r # q /\ req[r].pc = "transcribing" /\ OnlyMaybe(r)
       /\ (Suspended(q) \/ req[q].pc = "idle"))
    => CanAdvance(q)

C9_Witness ==
  \E r, q \in Slots :
    /\ r # q
    /\ req[r].pc = "transcribing"
    /\ req[q].pc = "emotions" /\ loop = q

\* C10: the speech-to-text model is a process-wide singleton: at most one
\* speech model is ever loaded and both endpoints transcribe with it.
C10_OneSpeechModel ==
  /\ built["_whisper_model"] + built["_model"] <= 1
  /\ Cardinality({singleton[s] : s \in SpeechSingletons} \ {NoInstance}) <= 1
InFlight(r) == req[r].pc \notin {"idle", "done"}
Created(r) == Range(req[r].created)
\* the paths the stages and the cleanup of r read or remove
Used(r) == {req[r].video_path, req[r].wav_path} \ {None}

\* C11: under any interleaving the temp paths of different requests are
\* pairwise distinct, a request reads and removes only paths it created, and
\* no artifact of an in-flight request is removed by another request.
C11_TempPathsOwned ==
  \A r \in Slots :
    /\ Used(r) \subseteq Created(r)
    /\ InFlight(r) =>
         /\ Created(r) \subseteq files
         /\ \A q \in Slots \ {r} : req[q].pc # "idle" => Created(q) \cap Created(r) = {}

C11_Witness ==
  \E r, q \in Slots :
    /\ r # q /\ InFlight(r) /\ InFlight(q)
    /\ req[r].created = <<1, 3>> /\ req[q].created = <<2, 4>>
    /\ req[r].pc = "cleanup" /\ req[q].pc = "transcribing"

\* C12: a removal that fails in the finally block is swallowed: the handler
\* leaves with the response or error it had before the block, and the removal
\* of the request's other artifact is attempted all the same.
C12_RemovalFailureSwallowed ==
  [][\A r \in Slots :
       (req[r].pc = "cleanup" /\ req'[r].pc = "done")
       => /\ req'[r].resp = req[r].resp
          /\ req'[r].removes =
               <<req[r].video_path>> \o
               (IF req[r].wav_path # None THEN <<req[r].wav_path>> ELSE <<>>)
          /\ files \ files' \subseteq Range(req'[r].removes)]_vars

C12_Witness ==
  \E r \in Slots :
    /\ IsDone(r) /\ Len(req[r].removes) = 2
    /\ Range(req[r].removes) \subseteq files
    /\ req[r].resp.status = 200 /\ "transcript" \in DOMAIN req[r].resp

RECURSIVE Total(_)
Total(h) == IF h = <<>> THEN 0 ELSE h[1][2] + Total(Tail(h))

\* C13: the counts of the emotion histogram sum to at most the number of
\* frames, those of the gesture histogram to at most twice the number of frames.
C13_HistogramSumsBounded ==
  \A r \in Slots :
    /\ req[r].emotion # Unset => Total(req[r].emotion[2]) <= Len(req[r].frames)
    /\ req[r].gesture # Unset => Total(req[r].gesture[2]) <= 2 * Len(req[r].frames)

C13_Witness ==
  \E r \in Slots :
    /\ Len(req[r].frames) = MaxFrames
    /\ req[r].emotion # Unset /\ Total(req[r].emotion[2]) = MaxFrames
    /\ req[r].gesture # Unset /\ Total(req[r].gesture[2]) = 2 * MaxFrames
    /\ Len(req[r].gesture[2]) = 2

\* C14: on an empty frame sequence _detect_emotions returns (Neutral, {}) and
\* _detect_gestures returns (null, {}) without raising, whether or not the
\* vision singletons are set and whether or not their assets can be loaded.
C14_EmptyFramesGiveSentinels ==
  \A r \in Slots :
    (req[r].frames = <<>> /\ "emotion" \in Stages(r))
    => /\ req[r].emotion = <<"Neutral", <<>>>>
       /\ req[r].pc \in {"gestures", "compose", "cleanup", "done"}
       /\ req[r].resp.status # 500
       /\ "gesture" \in Stages(r)
            => /\ req[r].gesture = <<NoneVal, <<>>>>
               /\ req[r].pc # "gestures"

C14_Witness ==
  \E r \in Slots :
    /\ IsDone(r) /\ req[r].frames = <<>> /\ "gesture" \in Stages(r)
    /\ req[r].resp.status = 200
    /\ \A s \in VideoSingletons \ {"_whisper_model"} : singleton[s] = NoInstance

\* the detections counted, in frame order (within a frame, in hand order)
RECURSIVE Flatten(_)
Flatten(ss) == IF ss = <<>> THEN <<>> ELSE Head(ss) \o Flatten(Tail(ss))
CountedKp(id) == KpLabel(KpLabelTable, id) \notin {NoneVal, ""}
KpLabelOf(id) == KpLabel(KpLabelTable, id)
FaceSeen(f) == f # NoFace
CountedEmotions(r) ==
  LET fs == SelectSeq(req[r].faces, FaceSeen) IN [i \in 1..Len(fs) |-> EMO_LABELS(fs[i])]
CountedGestures(r) ==
  LET ks == SelectSeq(Flatten(req[r].hands), CountedKp) IN
  [i \in 1..Len(ks) |-> KpLabelOf(ks[i])]

CountOf(h, l) == IF HasKey(h, l) THEN h[CHOOSE i \in 1..Len(h) : h[i][1] = l][2] ELSE 0
ListedAt(h, l) == CHOOSE i \in 1..Len(h) : h[i][1] = l
FirstAt(labels, l) ==
  CHOOSE i \in 1..Len(labels) : labels[i] = l /\ \A j \in 1..(i - 1) : labels[j] # l

\* result (d, h) of a detector that counted labels: sentinel and empty
\* histogram exactly when nothing was counted; else d is a key of maximal
\* count, listed and first counted before every other key of that count
DominantOk(result, sentinel, labels) ==
  LET d == result[1]
      h == result[2] IN
  /\ (h = <<>>) <=> (labels = <<>>)
  /\ h = <<>> => d = sentinel
  /\ h # <<>> =>
       /\ HasKey(h, d)
       /\ \A i \in 1..Len(h) :
            /\ h[i][2] <= CountOf(h, d)
            /\ (h[i][2] = CountOf(h, d) /\ h[i][1] # d)
                 => /\ ListedAt(h, d) < i
                    /\ FirstAt(labels, d) < FirstAt(labels, h[i][1])

\* C15: the dominant label of a detector is a key of its histogram with the
\* maximal count, among several such the first listed, which is the one first
\* counted in frame order; the result is the sentinel with an empty histogram
\* ((Neutral, {}) / (null, {})) exactly when no detection was counted.
C15_DominantIsFirstMax ==
  \A r \in Slots :
    /\ req[r].emotion # Unset => DominantOk(req[r].emotion, "Neutral", CountedEmotions(r))
    /\ req[r].gesture # Unset => DominantOk(req[r].gesture, NoneVal, CountedGestures(r))

C15_Witness ==
  \E r \in Slots :
    /\ req[r].faces = <<5, 3>> /\ req[r].emotion[1] = "Sad"
    /\ req[r].hands = <<<<1, 0>>, <<0, 1>>>> /\ req[r].gesture[1] = "Close"
    /\ req[r].gesture[2] = <<<<"Close", 2>>, <<"Open", 2>>>>

C17_VoiceResponseShapes ==
  \A r \in Slots :
    (req[r].endpoint = "voice" /\ req[r].transcribed) =>
      /\ req[r].transcript = Strip(TextOr(req[r].result))
      /\ req[r].transcript = <<>> =>
           /\ req[r].posts = <<>> /\ req[r].reply = NoReply
           /\ req[r].pc \in {"cleanup", "done"}
           /\ req[r].resp = [status |-> 200, transcript |-> <<>>, predictions |-> <<>>,
                             message |-> "No speech detected."]
      /\ req[r].transcript # <<>> =>
           /\ req[r].posts = <<[text |-> req[r].transcript]>>
           /\ (req[r].reply.kind = "http" /\ req[r].reply.status = 200) =>
                /\ req[r].pc \in {"cleanup", "done"}
                /\ DOMAIN req[r].resp = {"status", "transcript", "predictions"}
                /\ req[r].resp.status = 200
                /\ req[r].resp.transcript = req[r].transcript

C17_Witness ==
  \E r \in Slots :
    /\ IsDone(r) /\ req[r].endpoint = "voice"
    /\ req[r].result = SomeText(<<" ", "a">>)
    /\ req[r].resp = [status |-> 200, transcript |-> <<"a">>, predictions |-> <<P1, P2>>]

\* C18: on every successful request that was not short-circuited the
\* predictions of the report are the predictions list of the classifier's
\* reply, element for element in the same order, and [] when the 200 reply
\* has no predictions field.
C18_PredictionsVerbatim ==
  \A r \in Slots :
    (HasReport(r) /\ req[r].posts # <<>>) =>
      /\ req[r].reply.kind = "http" /\ req[r].reply.status = 200
      /\ req[r].resp.predictions =
           (IF "predictions" \in DOMAIN req[r].reply.json
            THEN req[r].reply.json.predictions ELSE <<>>)

C18_Witness ==
  \E r \in Slots :
    /\ IsDone(r) /\ req[r].endpoint = "video" /\ Len(req[r].posts) = 1
    /\ req[r].reply = Http(200, [predictions |-> <<P1, P2>>])
    /\ req[r].resp.status = 200 /\ req[r].resp.predictions = <<P1, P2>>
    /\ "vision" \in DOMAIN req[r].resp

\* C19: when the construction of a singleton raises because its assets are
\* missing, the request ends with a 500 error and no report, and no
\* construction is attempted again within that request.
C19_MissingAssetsFailOnce ==
  [][\A r \in Slots :
       /\ req'[r].raised # "none" =>
            /\ req'[r].pc \in {"cleanup", "done"}
            /\ req'[r].resp = [status |-> 500]
            /\ singleton'[req'[r].raised] = NoInstance
       /\ req[r].raised # "none" =>
            /\ singleton' = singleton /\ built' = built
            /\ req'[r].raised \in {req[r].raised, "none"}
            /\ req'[r].pc \in {"done", "idle"}]_vars

C19_Witness ==
  \E r \in Slots :
    /\ IsDone(r) /\ req[r].raised = "_emotion_model"
    /\ singleton["_face_net"] # NoInstance
    /\ req[r].frames # <<>> /\ req[r].resp.status = 500

StageOrder ==
  <<"save", "extract", "transcribe", "classify", "sample", "emotion", "gesture", "compose">>
IsPrefix(t, o) == Len(t) <= Len(o) /\ t = SubSeq(o, 1, Len(t))
EndsWithCleanup(t) == t # <<>> /\ t[Len(t)] = "cleanup"
BeforeCleanup(t) == IF EndsWithCleanup(t) THEN SubSeq(t, 1, Len(t) - 1) ELSE t

\* C20: every run of analyze_video executes its stages in the order save,
\* extract, transcribe, classify, sample, emotion, gesture, compose, cleanup;
\* a failing stage is followed by no stage but cleanup, and cleanup is the
\* last step before the handler completes.
C20_StagesInOrderCleanupLast ==
  \A r \in Slots :
    req[r].endpoint = "video" =>
      /\ IsPrefix(BeforeCleanup(req[r].trace), StageOrder)
      /\ req[r].resp.status = 500 => req[r].pc \in {"cleanup", "done"}
      /\ (IsDone(r) /\ req[r].trace # <<>>) => EndsWithCleanup(req[r].trace)

\* r passed the content-type check
Accepted(r) == req[r].pc # "idle" /\ req[r].resp.status # 400

\* C21: when every external call returns or raises, every request that passed
\* the content-type check eventually completes with a report or an error, and
\* its cleanup block has run before that outcome is delivered.
C21_CompletesAfterCleanup ==
  \A r \in {1} :
    /\ Accepted(r) ~> IsDone(r)
    /\ [](IsDone(r) /\ Accepted(r) => "cleanup" \in Stages(r))

\* C22: for every stride N >= 1, cap M >= 0 and source of any length the
\* sampler returns at most M frames.
C22_AtMostCapFrames ==
  \A r \in Slots :
    req[r].pc = "returned" => Len(req[r].frames) <= req[r].m

\* ceil(a / b)
CeilDiv(a, b) == (a + b - 1) \div b
Min(a, b) == IF a <= b THEN a ELSE b

\* C23: for stride N >= 1, cap M >= 1 and an openable source of L frames the
\* sampler returns, in source order, the frames at indices 0, N, 2N, ... below
\* L truncated to the first M (min(M, ceil(L/N)) frames), and decodes no
\* frame after the M-th kept one.
C23_EveryNthUpToCap ==
  \A r \in Slots :
    (req[r].pc = "returned" /\ req[r].src.opened /\ req[r].m >= 1) =>
      /\ Len(req[r].frames) = Min(req[r].m, CeilDiv(req[r].src.len, req[r].n))
      /\ \A i \in 1..Len(req[r].frames) : req[r].frames[i] = (i - 1) * req[r].n
      /\ Len(req[r].frames) = req[r].m =>
           req[r].decoded = req[r].frames[req[r].m] + 1
      /\ req[r].frames = SampleFrames(req[r].src, req[r].n, req[r].m)

C23_Witness ==
  \E r \in Slots :
    /\ req[r].pc = "returned" /\ req[r].n = 2 /\ req[r].m = 3
    /\ req[r].src = Source(TRUE, MaxLen)
    /\ req[r].frames = <<0, 2, 4>> /\ req[r].decoded = 5

\* C24: on every exit path of the sampler (stream end, cap reached, source
\* not opened, error raised while decoding) the decoder handle it created has
\* been released when the function exits.
C24_DecoderReleasedAtExit ==
  \A r \in Slots :
    req[r].pc \in {"returned", "raised"} => req[r].cap \in {"released", "unopened"}

\* C25: a video source that cannot be opened makes the sampler return an
\* empty sequence without raising, and the request then completes with a
\* success report whose vision fields are (Neutral, null, {}, {}).
C25_UnopenedSourceGivesDefaults ==
  \A r \in Slots :
    ("sample" \in Stages(r) /\ ~req[r].source.opened) =>
      /\ req[r].frames = <<>>
      /\ req[r].pc \in {"emotions", "gestures", "compose", "cleanup", "done"}
      /\ req[r].resp.status # 500
      /\ req[r].pc \in {"cleanup", "done"} =>
           /\ req[r].resp.status = 200
           /\ req[r].resp.vision =
                [dominant_emotion |-> "Neutral", dominant_gesture |-> NoneVal,
                 emotions |-> <<>>, gestures |-> <<>>]
           /\ req[r].resp.predictions = req[r].predictions

C25_Witness ==
  \E r \in Slots :
    /\ IsDone(r) /\ "sample" \in Stages(r) /\ ~req[r].source.opened
    /\ req[r].resp.status = 200 /\ req[r].resp.predictions = <<P1, P2>>
    /\ "message" \notin DOMAIN req[r].resp

\* proposal i of r's frame has confidence >= 0.85 and a clamped box of at
\* least 50 px by 50 px
Survives(r, i) ==
  LET d == req[r].dets[i]
      x1 == IF d.box[1] < 0 THEN 0 ELSE d.box[1]
      y1 == IF d.box[2] < 0 THEN 0 ELSE d.box[2]
      x2 == IF d.box[3] > FrameW - 1 THEN FrameW - 1 ELSE d.box[3]
      y2 == IF d.box[4] > FrameH - 1 THEN FrameH - 1 ELSE d.box[4] IN
  d.conf >= 85 /\ x2 - x1 >= 50 /\ y2 - y1 >= 50
Survivors(r) == {i \in 1..Len(req[r].dets) : Survives(r, i)}
\* the survivor of highest confidence, the first of them on equal confidence
Chosen(r) ==
  CHOOSE i \in Survivors(r) :
    \A j \in Survivors(r) :
      \/ req[r].dets[j].conf < req[r].dets[i].conf
      \/ req[r].dets[j].conf = req[r].dets[i].conf /\ i <= j

\* C26: of a frame's face proposals only those with confidence >= 0.85 and a
\* clamped box of at least 50 x 50 px are considered; at most one is
\* classified, the one of highest confidence (the first on equal confidence);
\* a frame with no surviving proposal adds nothing to the histogram.
C26_BestFaceOfFrame ==
  \A r \in Slots :
    req[r].pc = "returned" =>
      /\ Len(req[r].classified) <= 1
      /\ Survivors(r) = {} => req[r].classified = <<>> /\ req[r].emotion[2] = <<>>
      /\ Survivors(r) # {} =>
           /\ req[r].classified = <<Clamp(req[r].dets[Chosen(r)].box, FrameW, FrameH)>>
           /\ Total(req[r].emotion[2]) = 1

C26_Witness ==
  \E r \in Slots :
    /\ req[r].pc = "returned"
    /\ req[r].dets = <<[conf |-> 90, box |-> <<20, 20, 70, 95>>],
                       [conf |-> 90, box |-> <<10, 10, 90, 90>>]>>
    /\ req[r].classified = <<<<20, 20, 70, 95>>>>

EmotionNames == {"Angry", "Fear", "Happy", "Neutral", "Sad", "Surprise"}
\* the label the emotion histogram has a count for, None when it is empty
CountedAs(r) ==
  IF req[r].emotion[2] = <<>> THEN NoneVal ELSE req[r].emotion[2][1][1]

\* C27: whatever class index the emotion model returns, every key of the
\* emotion histogram and the dominant emotion is one of Angry, Fear, Happy,
\* Neutral, Sad, Surprise, and the indices 0, 2, 3, 4, 5, 6 are counted as
\* Angry, Fear, Happy, Neutral, Sad, Surprise.
C27_SparseEmotionLabels ==
  \A r \in Slots :
    req[r].pc = "returned" =>
      /\ req[r].emotion[1] \in EmotionNames
      /\ \A i \in 1..Len(req[r].emotion[2]) : req[r].emotion[2][i][1] \in EmotionNames
      /\ req[r].classified # <<>> =>
           /\ Len(req[r].emotion[2]) = 1
           /\ req[r].emotion[1] = CountedAs(r)
           /\ req[r].cls = 0 => CountedAs(r) = "Angry"
           /\ req[r].cls = 2 => CountedAs(r) = "Fear"
           /\ req[r].cls = 3 => CountedAs(r) = "Happy"
           /\ req[r].cls = 4 => CountedAs(r) = "Neutral"
           /\ req[r].cls = 5 => CountedAs(r) = "Sad"
           /\ req[r].cls = 6 => CountedAs(r) = "Surprise"

C27_Witness ==
  \E r \in Slots :
    /\ req[r].pc = "returned" /\ req[r].classified # <<>> /\ req[r].cls = 6
    /\ req[r].emotion = <<"Surprise", << <<"Surprise", 1>> >> >>

\* the hands of r's frames, as <<frame, hand>> positions
HandsSeen(r) ==
  {p \in (1..Len(req[r].hands)) \X (1..MAX_NUM_HANDS) : p[2] <= Len(req[r].hands[p[1]])}
KpIndexAt(r, p) == req[r].hands[p[1]][p[2]]
\* the classifier index of hand p is a row 0..len-1 of the label table
InTable(r, p) == KpIndexAt(r, p) \in 0..(Len(KpLabelTable) - 1)
\* the hands whose index is the row of label l
HandsLabelled(r, l) ==
  {p \in HandsSeen(r) : InTable(r, p) /\ KpLabelTable[KpIndexAt(r, p) + 1] = l}
TableLabels == {KpLabelTable[i] : i \in 1..Len(KpLabelTable)} \ {""}

\* C28: _detect_gestures adds exactly one to the histogram for each detected
\* hand whose classifier index resolves to a non-empty label of the label
\* table (a frame with two hands can add two), adds nothing for a hand whose
\* index lies outside 0..len-1, and every histogram key is a label of the
\* table.
C28_OneCountPerLabelledHand ==
  \A r \in Slots :
    req[r].pc = "returned" =>
      /\ \A i \in 1..Len(req[r].gesture[2]) : req[r].gesture[2][i][1] \in TableLabels
      /\ \A l \in TableLabels :
           CountOf(req[r].gesture[2], l) = Cardinality(HandsLabelled(r, l))
      /\ Total(req[r].gesture[2]) =
           Cardinality(UNION {HandsLabelled(r, l) : l \in TableLabels})

C28_Witness ==
  \E r \in Slots :
    /\ req[r].pc = "returned"
    /\ req[r].hands = << <<0, 0>>, <<3>> >>
    /\ req[r].gesture = <<"Open", << <<"Open", 2>> >> >>

\* pixel coordinate c (1 for x, 2 for y) of landmark k of r's hand
Pixel(r, k, c) ==
  LET raw == IF c = 1 THEN req[r].landmarks[k].x ELSE req[r].landmarks[k].y
      side == IF c = 1 THEN ImageW ELSE ImageH IN
  IF raw > side - 1 THEN side - 1 ELSE raw
\* component i of the vector belongs to landmark (i + 1) \div 2
WristRelative(r, i) ==
  Pixel(r, (i + 1) \div 2, 2 - (i % 2)) - Pixel(r, 1, 2 - (i % 2))
Magnitude(n) == IF n < 0 THEN -n ELSE n
Largest(r) ==
  CHOOSE m \in 0..MaxCoord :
    /\ \A i \in 1..(2 * Len(req[r].landmarks)) : Magnitude(WristRelative(r, i)) <= m
    /\ \E i \in 1..(2 * Len(req[r].landmarks)) : Magnitude(WristRelative(r, i)) = m
Divisor(r) == IF Largest(r) < 1 THEN 1 ELSE Largest(r)

\* C29: the feature vector of a hand is its landmark pixel coordinates minus
\* the wrist's, each divided by max(1, largest absolute component): the first
\* two components are 0, every component lies in [-1, 1], landmarks that all
\* coincide with the wrist give the zero vector, and no division by zero
\* occurs.
C29_WristRelativeNormalized ==
  \A r \in Slots :
    /\ req[r].pc # "raised"
    /\ req[r].pc = "returned" =>
         /\ Len(req[r].norm) = 2 * Len(req[r].landmarks)
         /\ \A i \in 1..Len(req[r].norm) :
              /\ req[r].norm[i].den >= 1
              /\ req[r].norm[i].num * Divisor(r) = WristRelative(r, i) * req[r].norm[i].den
              /\ -req[r].norm[i].den <= req[r].norm[i].num
              /\ req[r].norm[i].num <= req[r].norm[i].den
         /\ req[r].norm[1].num = 0 /\ req[r].norm[2].num = 0
         /\ (\A k \in 1..Len(req[r].landmarks) :
               Pixel(r, k, 1) = Pixel(r, 1, 1) /\ Pixel(r, k, 2) = Pixel(r, 1, 2))
              => \A i \in 1..Len(req[r].norm) : req[r].norm[i].num = 0

C29_Witness ==
  \E r \in Slots :
    /\ req[r].pc = "returned"
    /\ req[r].landmarks = <<[x |-> 0, y |-> 1], [x |-> 3, y |-> 0]>>
    /\ req[r].norm = <<[num |-> 0, den |-> 2], [num |-> 0, den |-> 2],
                       [num |-> 2, den |-> 2], [num |-> -1, den |-> 2]>>

Times(tr, name) == Cardinality({i \in 1..Len(tr) : tr[i] = name})
ExternalCalls == {"extract", "transcribe", "classify"}
\* the extraction was attempted and gave no wav file
ExtractFailed(r) == "extract" \in Stages(r) /\ req[r].wav_path = None
\* model.transcribe was called and raised
TranscribeFailed(r) ==
  "transcribe" \in Stages(r) /\ req[r].pc # "transcribing" /\ ~req[r].transcribed
\* the POST timed out or came back with a status other than 200
ClassifyFailed(r) ==
  req[r].reply # NoReply /\ (req[r].reply.kind = "timeout" \/ req[r].reply.status # 200)
EndsWithError(r) == req[r].pc \in {"cleanup", "done"} /\ req[r].resp = [status |-> 500]

\* C30: within one request the audio extraction, the transcription and the
\* text-classifier call are each attempted at most once; after a failure of
\* one of them nothing is attempted again or further and the request ends
\* with an internal error.
C30_ExternalCallsAtMostOnce ==
  \A r \in Slots :
    /\ \A c \in ExternalCalls : Times(req[r].trace, c) <= 1
    /\ Len(req[r].posts) <= 1
    /\ ExtractFailed(r) =>
         EndsWithError(r) /\ Stages(r) \cap {"transcribe", "classify"} = {}
    /\ TranscribeFailed(r) =>
         EndsWithError(r) /\ "classify" \notin Stages(r) /\ req[r].posts = <<>>
    /\ ClassifyFailed(r) =>
         EndsWithError(r) /\ Len(req[r].posts) = 1 /\ VisionStages \cap Stages(r) = {}

C30_Witness ==
  \E r \in Slots :
    /\ IsDone(r) /\ ClassifyFailed(r) /\ req[r].reply = Timeout
    /\ req[r].resp.status = 500
    /\ \A c \in ExternalCalls : Times(req[r].trace, c) = 1
====
